---- MODULE Spec2Model ----
(***************************************************************************)
(* Model of the form controller useFormValidation                          *)
(* (src/hooks/useFormValidation.ts) and of the rule library                *)
(* (src/validation/validationRules.ts).                                    *)
(*                                                                         *)
(* The controller state is the four pieces of React state (values, errors, *)
(* touched, isSubmitted) plus the memoised isValid.  Every action is one   *)
(* event-handler invocation followed by the render that React performs     *)
(* before the next event: the closures of the handler read the state of    *)
(* the last render (passed below as the parameters rValues / rErrors) and  *)
(* queue functional updates that are applied to the latest state (the      *)
(* parameters prev).                                                       *)
(***************************************************************************)
EXTENDS Integers, Sequences, FiniteSets, TLC

(***************************************************************************)
(* Bounds of the exploration.                                              *)
(***************************************************************************)
\* longest string typed into a text input
MaxLen == 2
\* number of controller operations in one session
MaxOps == 2
\* largest length or number a rule is constructed with
MaxBound == 2
\* longest password a rule is applied to
MaxPasswordLen == 9

(***************************************************************************)
(* JavaScript values.  A value is a record of a fixed shape: k is the      *)
(* kind, s the characters of a string, n the number (1/0 for a boolean).   *)
(***************************************************************************)
Str(chars) == [k |-> "str", s |-> chars, n |-> 0]
Num(i) == [k |-> "num", s |-> <<>>, n |-> i]
NaN == [k |-> "nan", s |-> <<>>, n |-> 0]
Bool(b) == [k |-> "bool", s |-> <<>>, n |-> IF b THEN 1 ELSE 0]
NullValue == [k |-> "null", s |-> <<>>, n |-> 0]
Undefined == [k |-> "undefined", s |-> <<>>, n |-> 0]

\* ToBoolean of a value: the test of `value || ''`
Truthy(v) ==
  CASE v.k = "str" -> v.s # <<>>
    [] v.k = "num" -> v.n # 0
    [] v.k = "bool" -> v.n = 1
    [] OTHER -> FALSE

Digits == <<"0", "1", "2", "3", "4", "5", "6", "7", "8", "9">>

DigitChar(d) == Digits[d + 1]

RECURSIVE DecimalChars(_)
\* the decimal digits of a natural number
DecimalChars(i) ==
  IF i < 10 THEN <<DigitChar(i)>>
  ELSE Append(DecimalChars(i \div 10), DigitChar(i % 10))

\* String(v)
JSString(v) ==
  CASE v.k = "str" -> v.s
    [] v.k = "num" -> IF v.n < 0 THEN <<"-">> \o DecimalChars(0 - v.n)
                      ELSE DecimalChars(v.n)
    [] v.k = "nan" -> <<"N", "a", "N">>
    [] v.k = "bool" -> IF v.n = 1 THEN <<"t", "r", "u", "e">>
                       ELSE <<"f", "a", "l", "s", "e">>
    [] v.k = "null" -> <<"n", "u", "l", "l">>
    [] OTHER -> <<"u", "n", "d", "e", "f", "i", "n", "e", "d">>

\* String(value || '')
StringValue(v) == IF Truthy(v) THEN JSString(v) ELSE <<>>

IsDigit(c) == \E d \in 0..9 : DigitChar(d) = c

DigitOf(c) == CHOOSE d \in 0..9 : DigitChar(d) = c

RECURSIVE DigitsValue(_)
DigitsValue(chars) ==
  IF chars = <<>> THEN 0
  ELSE 10 * DigitsValue(SubSeq(chars, 1, Len(chars) - 1)) + DigitOf(chars[Len(chars)])

\* Number(v): the empty string converts to 0 and a string of decimal digits
\* to its value; of the strings of the model (letters, digits, symbols, no
\* sign, no fraction, no blank) every other one converts to NaN
ToNumber(v) ==
  CASE v.k = "str" -> IF \A i \in 1..Len(v.s) : IsDigit(v.s[i])
                      THEN Num(DigitsValue(v.s)) ELSE NaN
    [] v.k = "num" -> v
    [] v.k = "nan" -> NaN
    [] v.k = "bool" -> Num(v.n)
    [] v.k = "null" -> Num(0)
    [] OTHER -> NaN

(***************************************************************************)
(* JavaScript objects used as maps: functions whose domain is the set of   *)
(* own keys.                                                               *)
(***************************************************************************)
EmptyObject == <<>>

Keys(obj) == DOMAIN obj

\* { ...obj, [key]: val }
Spread(obj, key, val) ==
  [x \in (DOMAIN obj) \cup {key} |-> IF x = key THEN val ELSE obj[x]]

\* delete obj[key]
Delete(obj, key) == [x \in (DOMAIN obj) \ {key} |-> obj[x]]

\* obj[key] of a value map
Get(obj, key) == IF key \in DOMAIN obj THEN obj[key] ELSE Undefined

(***************************************************************************)
(* Error messages.  A rule returns a string or null; an entry of the error *)
(* map is a string, null, or missing.                                      *)
(***************************************************************************)
Null == "<null>"
NoEntry == "<undefined>"
\* the optional message parameter left out
NoMessage == "<undefined>"

\* `if (error)`: null, undefined and the empty string are falsy
IsError(e) == e # Null /\ e # NoEntry /\ e # ""

\* errors[name]
GetError(obj, key) == IF key \in DOMAIN obj THEN obj[key] ELSE NoEntry

\* message || fallback
MessageOr(message, fallback) == IF IsError(message) THEN message ELSE fallback

(***************************************************************************)
(* Rule library.  A validator is the record of its constructor and the     *)
(* parameters it closes over; ApplyRule calls it.                          *)
(***************************************************************************)
required(message) ==
  [rule |-> "required", bound |-> 0, field |-> "",
   message |-> IF message = NoMessage THEN "This field is required" ELSE message]

minLength(bound, message) ==
  [rule |-> "minLength", bound |-> bound, field |-> "", message |-> message]

maxLength(bound, message) ==
  [rule |-> "maxLength", bound |-> bound, field |-> "", message |-> message]

min(minValue, message) ==
  [rule |-> "min", bound |-> minValue, field |-> "", message |-> message]

max(maxValue, message) ==
  [rule |-> "max", bound |-> maxValue, field |-> "", message |-> message]

strongPassword(message) ==
  [rule |-> "strongPassword", bound |-> 0, field |-> "", message |-> message]

match(fieldName, message) ==
  [rule |-> "match", bound |-> 0, field |-> fieldName, message |-> message]

confirmPassword(message) ==
  match("password", MessageOr(message, "Passwords do not match"))

\* `if (!value)`: every falsy value counts as missing
requiredRuleFalsy(r, value) == IF ~Truthy(value) THEN r.message ELSE Null

requiredRule(r, value) ==
  IF value = NullValue \/ value = Undefined \/ value = Str(<<>>)
  THEN r.message ELSE Null

minLengthRule(r, value) ==
  IF Len(StringValue(value)) < r.bound
  THEN MessageOr(r.message, "Must be at least " \o ToString(r.bound) \o " characters")
  ELSE Null

maxLengthRule(r, value) ==
  IF Len(StringValue(value)) > r.bound
  THEN MessageOr(r.message, "Must be at most " \o ToString(r.bound) \o " characters")
  ELSE Null

minRule(r, value) ==
  LET numValue == ToNumber(value)
  IN IF numValue # NaN /\ numValue.n < r.bound
     THEN MessageOr(r.message, "Must be at least " \o ToString(r.bound))
     ELSE Null

maxRule(r, value) ==
  LET numValue == ToNumber(value)
  IN IF numValue # NaN /\ numValue.n > r.bound
     THEN MessageOr(r.message, "Must be at most " \o ToString(r.bound))
     ELSE Null

\* the character classes of the regular expressions of strongPassword
UpperCaseChars ==
  {"A", "B", "C", "D", "E", "F", "G", "H", "I", "J", "K", "L", "M",
   "N", "O", "P", "Q", "R", "S", "T", "U", "V", "W", "X", "Y", "Z"}

LowerCaseChars ==
  {"a", "b", "c", "d", "e", "f", "g", "h", "i", "j", "k", "l", "m",
   "n", "o", "p", "q", "r", "s", "t", "u", "v", "w", "x", "y", "z"}

NumberChars == {Digits[i] : i \in 1..Len(Digits)}

SpecialChars ==
  {"!", "@", "#", "$", "%", "^", "&", "*", "(", ")", "_", "+", "-", "=",
   "[", "]", "{", "}", ";", "'", ":", "\"", "\\", "|", ",", ".", "<", ">",
   "/", "?"}

\* regex.test(stringValue) for a one-character class
TestClass(class, chars) == \E i \in 1..Len(chars) : chars[i] \in class

MinPasswordLength == 8

\* the lowercase check made before the uppercase check
strongPasswordRuleReordered(r, value) ==
  LET stringValue == StringValue(value)
  IN IF stringValue = <<>> THEN Null
     ELSE IF ~(Len(stringValue) >= MinPasswordLength)
          THEN "Password must be at least 8 characters long"
     ELSE IF ~TestClass(LowerCaseChars, stringValue)
          THEN "Password must contain at least one lowercase letter"
     ELSE IF ~TestClass(UpperCaseChars, stringValue)
          THEN "Password must contain at least one uppercase letter"
     ELSE IF ~TestClass(NumberChars, stringValue)
          THEN "Password must contain at least one number"
     ELSE IF ~TestClass(SpecialChars, stringValue)
          THEN "Password must contain at least one special character"
     ELSE MessageOr(r.message, Null)

strongPasswordRule(r, value) ==
  LET stringValue == StringValue(value)
      hasMinLength == Len(stringValue) >= MinPasswordLength
      hasUpperCase == TestClass(UpperCaseChars, stringValue)
      hasLowerCase == TestClass(LowerCaseChars, stringValue)
      hasNumber == TestClass(NumberChars, stringValue)
      hasSpecialChar == TestClass(SpecialChars, stringValue)
  IN IF stringValue = <<>> THEN Null
     ELSE IF ~hasMinLength THEN "Password must be at least 8 characters long"
     ELSE IF ~hasUpperCase
          THEN "Password must contain at least one uppercase letter"
     ELSE IF ~hasLowerCase
          THEN "Password must contain at least one lowercase letter"
     ELSE IF ~hasNumber THEN "Password must contain at least one number"
     ELSE IF ~hasSpecialChar
          THEN "Password must contain at least one special character"
     ELSE MessageOr(r.message, Null)

\* a === b (NaN is not equal to itself)
StrictEquals(a, b) == a = b /\ a.k # "nan"

\* the comparison made on the string forms, as a loose != would
matchRuleLoose(r, value, allValues) ==
  IF JSString(value) # JSString(Get(allValues, r.field))
  THEN MessageOr(r.message, "Must match " \o r.field)
  ELSE Null

matchRule(r, value, allValues) ==
  IF ~StrictEquals(value, Get(allValues, r.field))
  THEN MessageOr(r.message, "Must match " \o r.field)
  ELSE Null

\* rule(fieldValue, valuesToUse)
ApplyRule(r, value, allValues) ==
  CASE r.rule = "required" -> requiredRule(r, value)
    [] r.rule = "minLength" -> minLengthRule(r, value)
    [] r.rule = "match" -> matchRule(r, value, allValues)
    [] r.rule = "maxLength" -> maxLengthRule(r, value)
    [] r.rule = "min" -> minRule(r, value)
    [] r.rule = "max" -> maxRule(r, value)
    [] r.rule = "strongPassword" -> strongPasswordRule(r, value)

(***************************************************************************)
(* The form under verification: the registration form of App.tsx reduced   *)
(* to a password with a confirmation, a checkbox that has an empty rule    *)
(* sequence, and a numeric input "extra" that is bound to the controller   *)
(* but has neither an initial value nor rules.  The password needs MinLen  *)
(* characters, as the name does in App.tsx.                                *)
(***************************************************************************)
MinLen == 2

FieldNames == {"password", "confirmPassword", "agree", "extra"}

\* the initialValues option: the empty form of App.tsx, or the same form
\* constructed with a password that is already filled in and confirmed
EmptyForm ==
  [x \in {"password", "confirmPassword", "agree"} |->
     IF x = "agree" THEN Bool(FALSE) ELSE Str(<<>>)]

FilledForm ==
  [x \in {"password", "confirmPassword", "agree"} |->
     IF x = "agree" THEN Bool(TRUE) ELSE Str([i \in 1..MinLen |-> "a"])]

InitialValueMaps == {EmptyForm, FilledForm}

validationRules ==
  [x \in {"password", "confirmPassword", "agree"} |->
     CASE x = "password" ->
            <<required("Password is required"), minLength(MinLen, NoMessage)>>
       [] x = "confirmPassword" ->
            <<required("Please confirm your password"), confirmPassword(NoMessage)>>
       [] OTHER -> <<>>]

\* Object.keys(validationRules)
RuledFields == Keys(validationRules)

\* the strings a user can type: at most MaxLen characters
Texts == {[i \in 1..len |-> "a"] : len \in 0..MaxLen}

\* the type attribute of the input element bound to a field
InputType(name) ==
  CASE name = "agree" -> "checkbox"
    [] name = "extra" -> "number"
    [] OTHER -> "text"

\* event.target of the change events an input element can raise
ChangeEvents(name) ==
  CASE InputType(name) = "checkbox" ->
         {[type |-> "checkbox", value |-> <<"o", "n">>, checked |-> b] : b \in BOOLEAN}
    [] InputType(name) = "number" ->
         {[type |-> "number", value |-> t, checked |-> FALSE] : t \in {<<>>, <<"1">>}}
    [] OTHER ->
         {[type |-> "text", value |-> t, checked |-> FALSE] : t \in Texts}

\* error messages a caller injects with setError
InjectedErrors == {Null, "Server error"}

(***************************************************************************)
(* The inputs the rule library is applied to on its own.                   *)
(***************************************************************************)
\* the optional message parameter: left out, or supplied
RuleMessages == {NoMessage, "Custom message"}

RuleBounds == 0..MaxBound

\* every validator the library builds from these parameters
Rules ==
  {required(m) : m \in RuleMessages}
    \cup {minLength(b, m) : b \in RuleBounds, m \in RuleMessages}
    \cup {maxLength(b, m) : b \in RuleBounds, m \in RuleMessages}
    \cup {min(b, m) : b \in RuleBounds, m \in RuleMessages}
    \cup {max(b, m) : b \in RuleBounds, m \in RuleMessages}
    \cup {match(f, m) : f \in {"password", "extra"}, m \in RuleMessages}
    \cup {confirmPassword(m) : m \in RuleMessages}
    \cup {strongPassword(m) : m \in RuleMessages}

\* one character of each class of strongPassword, and one of no class
ClassChars == <<"A", "a", "1", "!">>

NoClassChar == "~"

CharsOf(classes) == SelectSeq(ClassChars, LAMBDA c : c \in classes)

Padding(classes, len) ==
  [i \in 1..len |-> IF classes = {} THEN NoClassChar ELSE CharsOf(classes)[1]]

\* for every set of classes and every length up to MaxPasswordLen, a string
\* that has exactly these classes
PasswordTexts ==
  {CharsOf(classes) \o Padding(classes, len - Len(CharsOf(classes))) :
     classes \in SUBSET {"A", "a", "1", "!"}, len \in 4..MaxPasswordLen}

\* the two passwords the documentation of the rule gives
ExampleTexts ==
  {<<"a", "l", "l", "l", "o", "w", "e", "r", "c", "a", "s", "e", "1", "!">>,
   <<"A", "b", "c", "d", "e", "f", "g", "1", "!">>}

RuleTexts ==
  Texts \cup {<<DigitChar(d)>> : d \in 0..(MaxBound + 1)}
    \cup PasswordTexts \cup ExampleTexts

RuleValues ==
  {Str(t) : t \in RuleTexts} \cup {Num(i) : i \in (0 - 1)..(MaxBound + 1)}
    \cup {Bool(b) : b \in BOOLEAN} \cup {NullValue, Undefined, NaN}

\* the values of the field a match rule names
MatchTargets == {Str(<<>>), Str(<<"a">>), Str(<<"1">>), Num(1), NaN, NullValue}

\* the value maps a rule is called with: only match reads them
Snapshots(r) ==
  IF r.rule = "match"
  THEN {[x \in {"password"} |-> w] : w \in MatchTargets}
         \cup {[x \in {"password", "extra"} |->
                  IF x = "extra" THEN w ELSE Str(<<"a">>)] : w \in MatchTargets}
  ELSE {EmptyObject}

\* forms whose password and confirmation are filled in, equal or not
RuleForms ==
  {[x \in {"password", "confirmPassword", "agree"} |->
      CASE x = "password" -> Str(p)
        [] x = "confirmPassword" -> Str(c)
        [] OTHER -> Bool(FALSE)] : p \in Texts \ {<<>>}, c \in Texts \ {<<>>}}

NoCall ==
  [rule |-> [rule |-> "none", bound |-> 0, field |-> "", message |-> NoMessage],
   value |-> Undefined, allValues |-> EmptyObject, result |-> Null]

VARIABLES
  initialValues,     \* option, fixed at construction
  values,            \* useState: field name -> value
  errors,            \* useState: field name -> message or null
  touched,           \* useState: field name -> boolean
  isSubmitted,       \* useState
  isValid,           \* useMemo over (validateField, validationRules, values)
  validateOnChange,  \* option, fixed at construction
  validateOnBlur,    \* option, fixed at construction
  last,              \* the operation run by the last event and what it returned
  ops,               \* number of operations run so far
  call               \* the validator called directly, its arguments and result

vars == <<initialValues, values, errors, touched, isSubmitted, isValid,
          validateOnChange, validateOnBlur, last, ops, call>>

(***************************************************************************)
(* validateField (lines 70-89).                                            *)
(***************************************************************************)
RECURSIVE RunRulesAll(_, _, _, _)
\* the loop without the early return: the last failing rule decides
RunRulesAll(fieldRules, i, fieldValue, valuesToUse) ==
  IF i > Len(fieldRules) THEN Null
  ELSE LET error == ApplyRule(fieldRules[i], fieldValue, valuesToUse)
           later == RunRulesAll(fieldRules, i + 1, fieldValue, valuesToUse)
       IN IF IsError(later) THEN later
          ELSE IF IsError(error) THEN error ELSE Null

RECURSIVE RunRules(_, _, _, _)
\* the for loop over fieldRules, from rule number i on
RunRules(fieldRules, i, fieldValue, valuesToUse) ==
  IF i > Len(fieldRules) THEN Null
  ELSE LET error == ApplyRule(fieldRules[i], fieldValue, valuesToUse)
       IN IF IsError(error) THEN error
          ELSE RunRules(fieldRules, i + 1, fieldValue, valuesToUse)

validateField(name, valuesToUse) ==
  IF name \notin Keys(validationRules) THEN Null
  ELSE IF Len(validationRules[name]) = 0 THEN Null
  ELSE RunRules(validationRules[name], 1, Get(valuesToUse, name), valuesToUse)

\* validateForm (lines 92-108): the new error map and the returned flag
\* only the failing fields get an entry
validateFormErrorsFailing(rValues) ==
  [fieldName \in {f \in RuledFields : IsError(validateField(f, rValues))} |->
     validateField(fieldName, rValues)]

validateFormErrors(rValues) ==
  [fieldName \in RuledFields |-> validateField(fieldName, rValues)]

validateFormResult(rValues) ==
  \A fieldName \in RuledFields : ~IsError(validateField(fieldName, rValues))

\* validity read off the cached error map
computeIsValidFromErrors(rValues) ==
  \A fieldName \in RuledFields : ~IsError(GetError(errors, fieldName))

\* the body of the isValid memo (lines 111-116)
computeIsValid(rValues) ==
  \A fieldName \in RuledFields : ~IsError(validateField(fieldName, rValues))

\* the memo is recomputed by the render when its dependency `values` changed
Memo(oldValues, newValues, oldIsValid) ==
  IF newValues # oldValues THEN computeIsValid(newValues) ELSE oldIsValid

(***************************************************************************)
(* setValue (lines 119-142): rValues and rErrors are the values and errors *)
(* captured by the closure, prev the state the queued updaters receive.    *)
(***************************************************************************)
\* only a key the map already has is written
setValueValuesKnown(prev, name, value) ==
  IF name \in Keys(prev) THEN Spread(prev, name, value) ELSE prev

setValueValues(prev, name, value) == Spread(prev, name, value)

\* the recorded error survives the change
setValueClearedNever(prev, rErrors, name) == prev

setValueCleared(prev, rErrors, name) ==
  IF IsError(GetError(rErrors, name)) THEN Delete(prev, name) ELSE prev

\* the rules run on the values of the last render, without the new value
setValueErrorsStale(prev, rValues, rErrors, name, value) ==
  LET cleared == setValueCleared(prev, rErrors, name)
  IN IF validateOnChange /\ name \in Keys(validationRules)
     THEN LET error == validateField(name, rValues)
          IN IF IsError(error) THEN Spread(cleared, name, error) ELSE cleared
     ELSE cleared

setValueErrors(prev, rValues, rErrors, name, value) ==
  LET cleared == setValueCleared(prev, rErrors, name)
  IN IF validateOnChange /\ name \in Keys(validationRules)
     THEN LET newValues == Spread(rValues, name, value)
              error == validateField(name, newValues)
          IN IF IsError(error) THEN Spread(cleared, name, error) ELSE cleared
     ELSE cleared

\* what an operation records about itself
Record(op, name, value, ret, ok, cb) ==
  [op |-> op, name |-> name, value |-> value, ret |-> ret, ok |-> ok, cb |-> cb,
   preError |-> GetError(errors, name),
   preDirty |-> values # initialValues /\ errors # EmptyObject]

\* the state after useFormValidation(options)
Construct(forms, flags) ==
  /\ initialValues \in forms
  /\ values = initialValues
  /\ errors = EmptyObject
  /\ touched = EmptyObject
  /\ isSubmitted = FALSE
  /\ isValid = computeIsValid(values)
  /\ validateOnChange \in flags
  /\ validateOnBlur \in flags
  /\ last = [op |-> "init", name |-> "", value |-> Undefined, ret |-> Null,
             ok |-> FALSE, cb |-> {}, preError |-> NoEntry, preDirty |-> FALSE]
  /\ ops = 0
  /\ call = NoCall

Init == Construct(InitialValueMaps, BOOLEAN)

\* the part every operation has in common: the options never change, the
\* render recomputes the memo, the operation is counted
Step(rec) ==
  /\ ops < MaxOps
  /\ ops' = ops + 1
  /\ last' = rec
  /\ isValid' = Memo(values, values', isValid)
  /\ UNCHANGED <<initialValues, validateOnChange, validateOnBlur, call>>

SetValue(name, value) ==
  /\ values' = setValueValues(values, name, value)
  /\ errors' = setValueErrors(errors, values, errors, name, value)
  /\ UNCHANGED <<touched, isSubmitted>>
  /\ Step(Record("setValue", name, value, Null, FALSE, {}))

\* the error map replaced by the one entry
setErrorOnly(prev, name, error) == [x \in {name} |-> error]

\* setError (lines 145-147)
setError(prev, name, error) == Spread(prev, name, error)

SetError(name, error) ==
  /\ errors' = setError(errors, name, error)
  /\ UNCHANGED <<values, touched, isSubmitted>>
  /\ Step(Record("setError", name, Undefined, error, FALSE, {}))

\* setTouched (lines 150-152)
setTouched(prev, name, isTouched) == Spread(prev, name, isTouched)

SetTouched(name, isTouched) ==
  /\ touched' = setTouched(touched, name, isTouched)
  /\ UNCHANGED <<values, errors, isSubmitted>>
  /\ Step(Record("setTouched", name, Bool(isTouched), Null, FALSE, {}))

\* the validateField returned by the hook, called with the field name only
ValidateField(name) ==
  /\ UNCHANGED <<values, errors, touched, isSubmitted>>
  /\ Step(Record("validateField", name, Undefined, validateField(name, values), FALSE, {}))

ValidateForm ==
  /\ errors' = validateFormErrors(values)
  /\ UNCHANGED <<values, touched, isSubmitted>>
  /\ Step(Record("validateForm", "", Undefined, Null, validateFormResult(values), {}))

\* resetForm (lines 155-160)
resetFormValues == initialValues

resetFormErrors == EmptyObject

\* the touched map left as it is
resetFormTouchedKept == touched

resetFormTouched == EmptyObject

ResetForm ==
  /\ values' = resetFormValues
  /\ errors' = resetFormErrors
  /\ touched' = resetFormTouched
  /\ isSubmitted' = FALSE
  /\ Step(Record("resetForm", "", Undefined, Null, FALSE, {}))

\* resetField (lines 163-167)
resetFieldValue(name) ==
  IF Truthy(Get(initialValues, name)) THEN Get(initialValues, name) ELSE Str(<<>>)

\* the field reset also clearing the submitted flag
ResetFieldAndSubmitted(name) ==
  /\ values' = Spread(values, name, resetFieldValue(name))
  /\ errors' = Spread(errors, name, Null)
  /\ touched' = Spread(touched, name, FALSE)
  /\ isSubmitted' = FALSE
  /\ Step(Record("resetField", name, Undefined, Null, FALSE, {}))

ResetField(name) ==
  /\ values' = Spread(values, name, resetFieldValue(name))
  /\ errors' = Spread(errors, name, Null)
  /\ touched' = Spread(touched, name, FALSE)
  /\ UNCHANGED isSubmitted
  /\ Step(Record("resetField", name, Undefined, Null, FALSE, {}))

\* handleChange (lines 170-184): the value taken from event.target
fieldValueOf(target) ==
  IF target.type = "checkbox" THEN Bool(target.checked)
  ELSE IF target.type = "number"
       THEN IF target.value = <<>> THEN Str(<<>>) ELSE ToNumber(Str(target.value))
       ELSE Str(target.value)

\* a change that also marks the field as touched
HandleChangeTouched(name, target) ==
  /\ values' = setValueValues(values, name, fieldValueOf(target))
  /\ errors' = setValueErrors(errors, values, errors, name, fieldValueOf(target))
  /\ touched' = setTouched(touched, name, TRUE)
  /\ UNCHANGED isSubmitted
  /\ Step(Record("handleChange", name, fieldValueOf(target), Null, FALSE, {}))

HandleChange(name, target) ==
  /\ values' = setValueValues(values, name, fieldValueOf(target))
  /\ errors' = setValueErrors(errors, values, errors, name, fieldValueOf(target))
  /\ UNCHANGED <<touched, isSubmitted>>
  /\ Step(Record("handleChange", name, fieldValueOf(target), Null, FALSE, {}))

\* handleBlur (lines 187-199)
handleBlurErrors(prev, rValues, name) ==
  IF validateOnBlur
  THEN LET error == validateField(name, rValues)
       IN IF IsError(error) THEN Spread(prev, name, error) ELSE prev
  ELSE prev

HandleBlur(name) ==
  /\ touched' = setTouched(touched, name, TRUE)
  /\ errors' = handleBlurErrors(errors, values, name)
  /\ UNCHANGED <<values, isSubmitted>>
  /\ Step(Record("handleBlur", name, Undefined, Null, FALSE, {}))

\* handleSubmit (lines 202-221)
\* only the fields that fail are marked
allFieldsTouchedFailing ==
  [fieldName \in {f \in RuledFields : IsError(validateField(f, values))} |-> TRUE]

allFieldsTouched == [fieldName \in RuledFields |-> TRUE]

\* onSubmit called without looking at the result of validateForm
onSubmitCallsUnchecked(isFormValid, rValues) == {rValues}

\* the calls of onSubmit: the set of the arguments it was called with
onSubmitCalls(isFormValid, rValues) == IF isFormValid THEN {rValues} ELSE {}

HandleSubmit ==
  /\ isSubmitted' = TRUE
  /\ touched' = allFieldsTouched
  /\ errors' = validateFormErrors(values)
  /\ UNCHANGED values
  /\ Step(Record("handleSubmit", "", Undefined, Null, validateFormResult(values),
                 onSubmitCalls(validateFormResult(values), values)))

\* the values a caller passes to setValue for a field
SetValueInputs(name) == {fieldValueOf(target) : target \in ChangeEvents(name)}

Next ==
  \/ \E name \in FieldNames : \E value \in SetValueInputs(name) : SetValue(name, value)
  \/ \E name \in FieldNames : \E error \in InjectedErrors : SetError(name, error)
  \/ \E name \in FieldNames : \E isTouched \in BOOLEAN : SetTouched(name, isTouched)
  \/ \E name \in FieldNames : ValidateField(name)
  \/ ValidateForm
  \/ ResetForm
  \/ \E name \in FieldNames : ResetField(name)
  \/ \E name \in FieldNames : \E target \in ChangeEvents(name) : HandleChange(name, target)
  \/ \E name \in FieldNames : HandleBlur(name)
  \/ HandleSubmit

Spec == Init /\ [][Next]_vars

\* a session in which the caller only ever calls setValue
NextSetValue ==
  \E name \in FieldNames : \E value \in SetValueInputs(name) : SetValue(name, value)

SpecSetValue == Init /\ [][NextSetValue]_vars

(***************************************************************************)
(* An event handler of the caller that calls setValue twice before the     *)
(* next render: both calls run in the closure of the last render (its      *)
(* values and errors), the queued updaters are applied one after the other.*)
(***************************************************************************)
SetValueTwice(f, v, g, w) ==
  /\ values' = setValueValues(setValueValues(values, f, v), g, w)
  /\ errors' = setValueErrors(setValueErrors(errors, values, errors, f, v),
                              values, errors, g, w)
  /\ UNCHANGED <<touched, isSubmitted>>
  /\ Step(Record("setValueTwice", g, w, Null, FALSE, {})
            @@ [first |-> [name |-> f, value |-> v]])

\* the fields whose rules read each other
LinkedFields == {"password", "confirmPassword"}

NextBatch ==
  \/ \E f \in LinkedFields : \E g \in LinkedFields \ {f} :
       \E v \in SetValueInputs(f) : \E w \in SetValueInputs(g) :
         SetValueTwice(f, v, g, w)
  \/ \E name \in LinkedFields : \E value \in SetValueInputs(name) :
       SetValue(name, value)

SpecBatch == Init /\ [][NextBatch]_vars

(***************************************************************************)
(* The rule library on its own: one validator is built and called once,    *)
(* before the controller is used; the controller, constructed with the     *)
(* default options, is asked to validate its fields.                       *)
(***************************************************************************)
CallRule(r, value, allValues) ==
  /\ call = NoCall /\ last.op = "init"
  /\ call' = [rule |-> r, value |-> value, allValues |-> allValues,
              result |-> ApplyRule(r, value, allValues)]
  /\ UNCHANGED <<initialValues, values, errors, touched, isSubmitted, isValid,
                 validateOnChange, validateOnBlur, last, ops>>

InitRules == Construct(RuleForms, {TRUE})

NextRules ==
  \/ /\ call = NoCall
     /\ \E r \in Rules : \E value \in RuleValues : \E allValues \in Snapshots(r) :
          CallRule(r, value, allValues)
  \/ \E name \in FieldNames : call = NoCall /\ ValidateField(name)
  \/ /\ call = NoCall
     /\ \E name \in {"password", "confirmPassword"} :
          \E value \in SetValueInputs(name) : SetValue(name, value)

SpecRules == InitRules /\ [][NextRules]_vars

(***************************************************************************)
(* Properties.                                                             *)
(***************************************************************************)
\* the rules of a field that return a message on a value map
FailingRules(name, vals) ==
  IF name \in Keys(validationRules)
  THEN {i \in 1..Len(validationRules[name]) :
          ApplyRule(validationRules[name][i], Get(vals, name), vals) # Null}
  ELSE {}

\* the message of the first failing rule in configured order, Null if none
FirstFailure(name, vals) ==
  IF FailingRules(name, vals) = {} THEN Null
  ELSE LET first == CHOOSE i \in FailingRules(name, vals) :
                      \A j \in FailingRules(name, vals) : i <= j
       IN ApplyRule(validationRules[name][first], Get(vals, name), vals)

\* every field with a configured rule sequence passes on a value map
AllRuledPass(vals) == \A name \in RuledFields : FailingRules(name, vals) = {}

\* C1: handleSubmit calls onSubmit exactly when every ruled field passes on
\* the current value map, and then with exactly the current value map.
C1_SubmitCallback ==
  last.op = "handleSubmit" =>
    /\ (last.cb # {}) <=> AllRuledPass(values)
    /\ last.cb \subseteq {values}

C1_Witness == last.op = "handleSubmit" /\ last.cb = {values}

\* C2: isValid is true exactly when every ruled field passes on the current
\* value map, whatever the error map holds.
C2_IsValidFromValues == isValid <=> AllRuledPass(values)

C2_Witness ==
  /\ isValid
  /\ \E name \in RuledFields : IsError(GetError(errors, name))
  /\ last.op = "setError"

\* the recorded error of a field agrees with a validation result
Agrees(entry, result) ==
  IF result # Null THEN entry = result ELSE ~IsError(entry)

\* C3: with validateOnChange, after setValue(f, v) on a ruled field the value
\* is v and the error is the first failure of f on the map that contains v.
C3_SetValueValidates ==
  (validateOnChange /\ last.op = "setValue" /\ last.name \in RuledFields) =>
    /\ Get(values, last.name) = last.value
    /\ Agrees(GetError(errors, last.name), FirstFailure(last.name, values))

C3_Witness ==
  /\ validateOnChange /\ last.op = "setValue" /\ last.name \in RuledFields
  /\ IsError(last.preError)
  /\ IsError(GetError(errors, last.name))
  /\ GetError(errors, last.name) # last.preError

\* C4: with validateOnChange, after setValue operations only, the error
\* recorded for every ruled field (every entry the error map holds for one)
\* is what validateField returns on the current value map.
C4_ErrorsFollowValues ==
  validateOnChange =>
    \A g \in RuledFields \cap Keys(errors) :
      Agrees(errors[g], FirstFailure(g, values))

\* C5: after resetForm the state is that of a fresh controller.
C5_ResetFormFresh ==
  last.op = "resetForm" =>
    /\ values = initialValues
    /\ errors = EmptyObject
    /\ touched = EmptyObject
    /\ isSubmitted = FALSE
    /\ isValid = AllRuledPass(initialValues)

C5_Witness == last.op = "resetForm" /\ last.preDirty

\* C6: validateField returns the message of the first failing rule, null when
\* none fails or the field has no rules, and changes no state.
C6_ValidateFieldFirstFailure ==
  [][last'.op = "validateField" =>
       /\ last'.ret = FirstFailure(last'.name, values)
       /\ UNCHANGED <<values, errors, touched, isSubmitted>>]_vars

C6_Witness ==
  /\ last.op = "validateField"
  /\ Cardinality(FailingRules(last.name, values)) >= 2
  /\ last.ret = ApplyRule(validationRules[last.name][1], Get(values, last.name), values)

\* C7: validateForm replaces the error map by the validation result of every
\* ruled field and returns true exactly when none failed, which is isValid.
C7_ValidateFormWritesAll ==
  last.op = "validateForm" =>
    /\ Keys(errors) = RuledFields
    /\ \A name \in RuledFields : errors[name] = FirstFailure(name, values)
    /\ last.ok <=> (\A name \in RuledFields : errors[name] = Null)
    /\ last.ok = isValid

C7_Witness ==
  /\ last.op = "validateForm"
  /\ \E name \in RuledFields : IsError(GetError(errors, name))
  /\ \E name \in RuledFields : GetError(errors, name) = Null /\ validationRules[name] # <<>>

\* C8: handleBlur touches the field, and with validateOnBlur the error of the
\* field afterwards is its validation result, whatever it was before.
C8_BlurWritesResult ==
  last.op = "handleBlur" =>
    /\ last.name \in Keys(touched) /\ touched[last.name]
    /\ validateOnBlur =>
         Agrees(GetError(errors, last.name), FirstFailure(last.name, values))

\* C9: handleSubmit sets isSubmitted, touches every ruled field and leaves the
\* values alone, whether validation succeeds or fails.
C9_SubmitTouchesRuled ==
  [][last'.op = "handleSubmit" =>
       /\ isSubmitted'
       /\ \A name \in RuledFields : name \in Keys(touched') /\ touched'[name]
       /\ values' = values]_vars

C9_Witness ==
  /\ last.op = "handleSubmit" /\ ~last.ok
  /\ \E name \in RuledFields : FailingRules(name, values) = {}

\* C10: isSubmitted starts false, is true after handleSubmit, and only
\* resetForm makes it false again.
C10_SubmittedUntilReset ==
  /\ ~isSubmitted
  /\ [][/\ last'.op = "handleSubmit" => isSubmitted'
        /\ (isSubmitted /\ last'.op # "resetForm") => isSubmitted'
        /\ last'.op = "resetForm" => ~isSubmitted']_vars

C10_Witness == isSubmitted /\ last.op = "resetField"

\* C11: resetField(f) restores the recorded initial value of f (the empty
\* string when none was recorded), clears its error and its touched flag, and
\* changes nothing else.
C11_ResetFieldRestores ==
  [][last'.op = "resetField" =>
       LET f == last'.name
       IN /\ Get(values', f) = IF f \in Keys(initialValues)
                               THEN initialValues[f] ELSE Str(<<>>)
          /\ ~IsError(GetError(errors', f))
          /\ f \in Keys(touched') /\ ~touched'[f]
          /\ \A g \in FieldNames \ {f} :
               /\ Get(values', g) = Get(values, g)
               /\ GetError(errors', g) = GetError(errors, g)
               /\ (g \in Keys(touched')) = (g \in Keys(touched))
               /\ g \in Keys(touched) => touched'[g] = touched[g]
          /\ isSubmitted' = isSubmitted]_vars

\* C12: without validateOnChange, after setValue(f, v) the value is v and f
\* has no error message whether or not v satisfies the rules, while isValid
\* follows v.
C12_SetValueClearsOnly ==
  (~validateOnChange /\ last.op = "setValue") =>
    /\ Get(values, last.name) = last.value
    /\ ~IsError(GetError(errors, last.name))
    /\ isValid <=> AllRuledPass(values)

C12_Witness ==
  /\ ~validateOnChange /\ last.op = "setValue"
  /\ IsError(last.preError)
  /\ FailingRules(last.name, values) # {}

\* C13: setError and setTouched write the one entry they are given and run no
\* rule: values, isSubmitted, the other map, the entries of the other fields
\* and isValid stay as they were.
C13_LowLevelOverrides ==
  [][/\ last'.op = "setError" =>
          /\ GetError(errors', last'.name) = last'.ret
          /\ \A g \in FieldNames \ {last'.name} :
               GetError(errors', g) = GetError(errors, g)
          /\ UNCHANGED <<values, touched, isSubmitted, isValid>>
     /\ last'.op = "setTouched" =>
          /\ last'.name \in Keys(touched')
          /\ Bool(touched'[last'.name]) = last'.value
          /\ \A g \in Keys(touched) \ {last'.name} :
               g \in Keys(touched') /\ touched'[g] = touched[g]
          /\ Keys(touched') \subseteq Keys(touched) \cup {last'.name}
          /\ UNCHANGED <<values, errors, isSubmitted, isValid>>]_vars

C13_Witness ==
  /\ last.op = "setError"
  /\ last.ret = Null
  /\ FailingRules(last.name, values) # {}
  /\ \E g \in FieldNames \ {last.name} : IsError(GetError(errors, g))

\* C14 as claimed: the field names of the value map are those of the initial
\* value map in every state.
C14_KeysFixed == Keys(values) = Keys(initialValues)

\* C14 as amended: the value map starts with the initial field names; setValue,
\* handleChange and resetField add the name they are called with, resetForm
\* restores the initial names, no other operation changes the names.
C14_KeysGrowByName ==
  /\ Keys(values) = Keys(initialValues)
  /\ [][Keys(values') =
          IF last'.op \in {"setValue", "handleChange", "resetField"}
          THEN Keys(values) \cup {last'.name}
          ELSE IF last'.op = "resetForm" THEN Keys(initialValues)
          ELSE Keys(values)]_vars

C14_Witness ==
  /\ last.op = "setValue"
  /\ last.name \notin Keys(initialValues)
  /\ Keys(values) = Keys(initialValues) \cup {last.name}

(***************************************************************************)
(* Properties of the rule library.                                         *)
(***************************************************************************)
\* the rule called directly was built by this constructor
Called(constructor) == call.rule.rule = constructor

\* the call returned an error message
Failed == call.result # Null

\* the values the rules are said to leave to required
IsEmptyValue(v) == v \in {Str(<<>>), NullValue, Undefined}

\* C15: required returns its message exactly for the empty string, null and
\* undefined, and no error for every other value, 0 and false included.
C15_RequiredExactlyEmpty ==
  Called("required") =>
    /\ Failed <=> IsEmptyValue(call.value)
    /\ Failed => call.result = call.rule.message

C15_Witness ==
  /\ Called("required") /\ call.value = Num(0) /\ ~Failed

\* C16 as claimed: minLength(b) fails exactly on a non-empty value whose
\* string form is shorter than b, maxLength(b) exactly on one whose string
\* form is longer than b, and the empty string, null and undefined fail
\* neither.
C16_LengthRulesSkipEmpty ==
  /\ Called("minLength") =>
       (Failed <=> /\ ~IsEmptyValue(call.value)
                   /\ Len(JSString(call.value)) < call.rule.bound)
  /\ Called("maxLength") =>
       (Failed <=> /\ ~IsEmptyValue(call.value)
                   /\ Len(JSString(call.value)) > call.rule.bound)

\* a number, or a non-empty string of decimal digits
IsNumeric(v) ==
  \/ v.k = "num"
  \/ v.k = "str" /\ v.s # <<>> /\ \A i \in 1..Len(v.s) : IsDigit(v.s[i])

NumericValue(v) == IF v.k = "num" THEN v.n ELSE DigitsValue(v.s)

\* C17 as claimed: min(b) returns an error exactly for a numeric value below
\* b and max(b) exactly for a numeric value above b; the empty string, null,
\* undefined, booleans and non-numeric strings pass both.
C17_BoundsOnlyNumeric ==
  /\ Called("min") =>
       (Failed <=> /\ IsNumeric(call.value)
                   /\ NumericValue(call.value) < call.rule.bound)
  /\ Called("max") =>
       (Failed <=> /\ IsNumeric(call.value)
                   /\ NumericValue(call.value) > call.rule.bound)

\* two values of the same type and content, NaN excepted
SameValue(a, b) == a.k = b.k /\ a.s = b.s /\ a.n = b.n /\ a.k # "nan"

FirstUnmet(chars) ==
  CASE Len(chars) < MinPasswordLength ->
         "Password must be at least 8 characters long"
    [] ~TestClass(UpperCaseChars, chars) ->
         "Password must contain at least one uppercase letter"
    [] ~TestClass(LowerCaseChars, chars) ->
         "Password must contain at least one lowercase letter"
    [] ~TestClass(NumberChars, chars) ->
         "Password must contain at least one number"
    [] ~TestClass(SpecialChars, chars) ->
         "Password must contain at least one special character"
    [] OTHER -> Null

IsFalsyValue(v) == IsEmptyValue(v) \/ v \in {Num(0), Bool(FALSE), NaN}

C20_NoErrorOnSuccess ==
  (/\ Called("strongPassword") /\ call.value.k = "str"
   /\ FirstUnmet(call.value.s) = Null) => call.result = Null

(***************************************************************************)
(* Frame properties of the controller.                                     *)
(***************************************************************************)
\* touched[name] is true
IsTouched(map, name) == name \in Keys(map) /\ map[name]

\* C22 as claimed: every field that is touched before handleSubmit is touched
\* after it, a field without a rule sequence included.
C22_SubmitKeepsTouched ==
  [][last'.op = "handleSubmit" =>
       \A f \in FieldNames : IsTouched(touched, f) => IsTouched(touched', f)]_vars

\* C23 as claimed: an error message recorded for a field without a rule
\* sequence is still recorded for it after validateForm and after
\* handleSubmit.
C23_UnruledErrorsKept ==
  [][last'.op \in {"validateForm", "handleSubmit"} =>
       \A f \in FieldNames :
         (/\ f \notin Keys(validationRules) \/ validationRules[f] = <<>>
          /\ IsError(GetError(errors, f))) =>
           GetError(errors', f) = GetError(errors, f)]_vars

\* C24: setValue(f, v) and handleChange(f) leave the value and the recorded
\* error of every other field, the touched map and isSubmitted as they were,
\* whether validateOnChange is enabled or not.
C24_SetValueFrame ==
  [][last'.op \in {"setValue", "handleChange"} =>
       /\ \A g \in FieldNames \ {last'.name} :
            /\ (g \in Keys(values')) = (g \in Keys(values))
            /\ Get(values', g) = Get(values, g)
            /\ (g \in Keys(errors')) = (g \in Keys(errors))
            /\ GetError(errors', g) = GetError(errors, g)
       /\ UNCHANGED <<touched, isSubmitted>>]_vars

C24_Witness ==
  /\ last.op = "handleChange"
  /\ validateOnChange
  /\ IsError(GetError(errors, last.name))
  /\ \E g \in FieldNames \ {last.name} :
       IsError(GetError(errors, g)) /\ IsTouched(touched, g)

\* C21 as claimed: after setValue(f, v) and setValue(g, w) called in one
\* handler the value map holds v for f and w for g, and with validateOnChange
\* the error recorded for g is what validateField(g) returns on that map.
C21_BatchedSetValue ==
  last.op = "setValueTwice" =>
    /\ Get(values, last.first.name) = last.first.value
    /\ Get(values, last.name) = last.value
    /\ validateOnChange =>
         IF IsError(validateField(last.name, values))
         THEN GetError(errors, last.name) = validateField(last.name, values)
         ELSE ~IsError(GetError(errors, last.name))

====
